---- MODULE Spec2Model ----
(***************************************************************************)
(* cc2jsonparser: a lexer (tokenize) and a recursive-descent validator     *)
(* (parse_tokens) for JSON, driven by main.                                *)
(*                                                                         *)
(* Two specifications share the validator's actions:                       *)
(*   Spec       main: read input, tokenize, reject empty, parse, exit      *)
(*   SpecParse  parse_tokens called directly on a token slice              *)
(***************************************************************************)
EXTENDS Integers, Sequences, FiniteSets, TLC

VARIABLES
    input,        \* the text of the file or of stdin (characters)
    lines,        \* what buf_reader.lines() gives: the text line by line
    mainPc,       \* where main is: open, tokenize, parse, exited, panicked; direct without main
    units,        \* the pieces the input text was written from, in order
    exitCode,     \* <<status>> once std::process::exit(status) ran, <<>> before
    lineNo,       \* tokenize: number of lines taken from buf_reader.lines()
    col,          \* tokenize: characters of the current line taken from iter
    toks,         \* tokenize: the local Vec<Token>
    lexResult,    \* tokenize: none | running | Ok | Err | Panic
    tokens,       \* the slice handed to parse_tokens
    pos,          \* JsonParser.iter: tokens already taken by next()
    stack,        \* active invocations of parse_tokens and the grammar rules
    ret,          \* value returned by the invocation that returned last
    parseResult   \* parse_tokens: none | Ok | Err

vars == <<input, lines, units, mainPc, exitCode, lineNo, col, toks, lexResult,
          tokens, pos, stack, ret, parseResult>>

mainVars == <<input, lines, units, mainPc, exitCode>>
lexVars == <<lineNo, col, toks, lexResult>>
parseVars == <<tokens, pos, stack, ret, parseResult>>

-----------------------------------------------------------------------------
(* Bounds *)

\* SpecParse: every token sequence up to this length is an input
MaxLen == 4
\* SpecParse: every well-formed value up to this length is an input,
\* alone and followed by one more token
MaxValueLen == 9

-----------------------------------------------------------------------------
(* Tokens *)

Quote == "\""

\* A Token: its variant and, for String and Number, its payload
Tok(k) == [kind |-> k, text |-> <<>>]
StringTok(s) == [kind |-> "String", text |-> s]
NumberTok(s) == [kind |-> "Number", text |-> s]

EOF == Tok("EOF")

TokenKinds == {"LeftBrace", "RightBrace", "Colon", "Comma", "String", "True",
               "False", "Null", "Number", "LeftBracket", "RightBracket", "EOF"}

is_simple_value_no_null(token) ==
    token.kind \in {"String", "True", "False", "Number"}

is_simple_value(token) ==
    token.kind \in {"String", "True", "False", "Null", "Number"}

-----------------------------------------------------------------------------
(* JsonParser: a peekable cursor over the slice *)

\* iter.peek(): the token next() would give, or None
AtEnd == pos >= Len(tokens)

peek == IF AtEnd THEN EOF ELSE tokens[pos + 1]

\* a read that never advances the cursor
posAfterReadStuck(p) == p

\* a read that advances even when the slice is exhausted
posAfterReadPastEnd(p) == p + 1

\* the cursor after read(): next() on an exhausted slice iterator stays put
posAfterRead(p) == IF p >= Len(tokens) THEN p ELSE p + 1

\* the token read() gives at cursor p
tokenAt(p) == IF p >= Len(tokens) THEN EOF ELSE tokens[p + 1]

is_eof_always == TRUE

is_eof == AtEnd

-----------------------------------------------------------------------------
(* The call stack of the validator *)

Frame(f, p, v) == [fn |-> f, pc |-> p, valid |-> v]

Top == stack[Len(stack)]

Running(f, p) == Len(stack) > 0 /\ Top.fn = f /\ Top.pc = p

\* the running invocation calls f and will resume at p
Call(f, p) ==
    stack' = [stack EXCEPT ![Len(stack)].pc = p] \o <<Frame(f, "entry", FALSE)>>

\* the running invocation returns v to its caller
Return(v) ==
    /\ stack' = SubSeq(stack, 1, Len(stack) - 1)
    /\ ret' = v

\* the running invocation goes on at p with its local valid set to v
Goto(p, v) ==
    stack' = [stack EXCEPT ![Len(stack)].pc = p, ![Len(stack)].valid = v]

-----------------------------------------------------------------------------
(* parse_tokens *)

ParseTokens ==
    /\ Running("parse_tokens", "entry")
    /\ UNCHANGED <<mainVars, lexVars, tokens, parseResult>>
    /\ IF is_simple_value(peek)
         THEN /\ pos' = posAfterRead(pos)
              /\ Goto("check", TRUE)
              /\ UNCHANGED ret
         ELSE /\ UNCHANGED <<pos, ret>>
              /\ CASE peek.kind = "LeftBrace" -> Call("object", "returned")
                   [] peek.kind = "LeftBracket" -> Call("array", "returned")
                   [] OTHER -> Goto("check", FALSE)

ParseTokensCheck ==
    /\ Len(stack) > 0 /\ Top.fn = "parse_tokens"
    /\ Top.pc \in {"check", "returned"}
    /\ LET valid == IF Top.pc = "returned" THEN ret ELSE Top.valid
       IN  parseResult' = IF valid /\ is_eof THEN "Ok" ELSE "Err"
    /\ stack' = <<>>
    /\ UNCHANGED <<mainVars, lexVars, tokens, pos, ret>>

-----------------------------------------------------------------------------
(* new_parse_object *)

ParseObject ==
    /\ Running("object", "entry")
    /\ UNCHANGED <<mainVars, lexVars, tokens, parseResult, ret>>
    /\ LET p == posAfterRead(pos)          \* read_left_brace, result unused
           la == tokenAt(p)
       IN  /\ pos' = p
           /\ CASE la.kind = "RightBrace" -> Goto("close", TRUE)
                [] la.kind = "String" -> Call("member", "members")
                [] OTHER -> Goto("close", FALSE)

\* the value of the match is dropped: the result is read_right_brace() alone
ParseObjectClose ==
    /\ Len(stack) > 0 /\ Top.fn = "object"
    /\ Top.pc \in {"close", "members"}
    /\ pos' = posAfterRead(pos)
    /\ Return(peek.kind = "RightBrace")
    /\ UNCHANGED <<mainVars, lexVars, tokens, parseResult>>

-----------------------------------------------------------------------------
(* new_parse_object_member *)

\* the tail of the member rule, after the value matched: cursor at p
MemberNext(p) ==
    LET la == tokenAt(p)
    IN  CASE la.kind = "Comma" ->
               /\ pos' = posAfterRead(p)
               /\ Call("member", "member")
               /\ UNCHANGED ret
          [] la.kind = "RightBrace" -> (pos' = p /\ Return(TRUE))
          [] OTHER -> (pos' = p /\ Return(FALSE))

ParseObjectMember ==
    /\ Running("member", "entry")
    /\ UNCHANGED <<mainVars, lexVars, tokens, parseResult>>
    /\ LET p1 == posAfterRead(pos)
           p2 == posAfterRead(p1)
       IN  IF peek.kind # "String"                   \* read_object_key
             THEN pos' = p1 /\ Return(FALSE)
             ELSE IF tokenAt(p1).kind # "Colon"      \* read_colon
                    THEN pos' = p2 /\ Return(FALSE)
                    ELSE /\ pos' = p2
                         /\ Call("value", "value")
                         /\ UNCHANGED ret

ParseObjectMemberValue ==
    /\ Running("member", "value")
    /\ UNCHANGED <<mainVars, lexVars, tokens, parseResult>>
    /\ IF ~ret
         THEN UNCHANGED pos /\ Return(FALSE)
         ELSE MemberNext(pos)

ParseObjectMemberTail ==
    /\ Running("member", "member")
    /\ Return(ret)
    /\ UNCHANGED <<mainVars, lexVars, tokens, parseResult, pos>>

-----------------------------------------------------------------------------
(* new_parse_object_value *)

ParseObjectValue ==
    /\ Running("value", "entry")
    /\ UNCHANGED <<mainVars, lexVars, tokens, parseResult>>
    /\ IF is_simple_value(peek)
         THEN pos' = posAfterRead(pos) /\ Return(TRUE)
         ELSE /\ UNCHANGED pos
              /\ CASE peek.kind = "LeftBrace" ->
                        Call("object", "nested") /\ UNCHANGED ret
                   [] peek.kind = "LeftBracket" ->
                        Call("array", "nested") /\ UNCHANGED ret
                   [] OTHER -> Return(FALSE)

ParseObjectValueNested ==
    /\ Running("value", "nested")
    /\ Return(ret)
    /\ UNCHANGED <<mainVars, lexVars, tokens, parseResult, pos>>

-----------------------------------------------------------------------------
(* new_parse_array *)

ParseArray ==
    /\ Running("array", "entry")
    /\ UNCHANGED <<mainVars, lexVars, tokens, parseResult, ret>>
    /\ LET p == posAfterRead(pos)          \* read_left_bracket, result unused
       IN  /\ pos' = p
           /\ IF tokenAt(p).kind = "RightBracket"
                THEN Goto("close", TRUE)
                ELSE Call("element", "elements")

\* the closing read done whatever the Elements part gave
ParseArrayCloseAlwaysRead ==
    /\ Len(stack) > 0 /\ Top.fn = "array"
    /\ Top.pc \in {"close", "elements"}
    /\ UNCHANGED <<mainVars, lexVars, tokens, parseResult>>
    /\ LET valid == IF Top.pc = "elements" THEN ret ELSE Top.valid
       IN  /\ pos' = posAfterRead(pos)
           /\ Return(valid /\ peek.kind = "RightBracket")

ParseArrayClose ==
    /\ Len(stack) > 0 /\ Top.fn = "array"
    /\ Top.pc \in {"close", "elements"}
    /\ UNCHANGED <<mainVars, lexVars, tokens, parseResult>>
    /\ LET valid == IF Top.pc = "elements" THEN ret ELSE Top.valid
       IN  IF valid
             THEN /\ pos' = posAfterRead(pos)
                  /\ Return(peek.kind = "RightBracket")
             ELSE UNCHANGED pos /\ Return(FALSE)

-----------------------------------------------------------------------------
(* new_parse_array_element *)

\* the tail of the element rule, after the value matched: cursor at p
ElementNext(p) ==
    IF tokenAt(p).kind = "Comma"
      THEN /\ pos' = posAfterRead(p)
           /\ Call("element", "element")
           /\ UNCHANGED ret
      ELSE pos' = p /\ Return(TRUE)

ParseArrayElement ==
    /\ Running("element", "entry")
    /\ UNCHANGED <<mainVars, lexVars, tokens, parseResult>>
    /\ IF is_simple_value(peek)
         THEN ElementNext(posAfterRead(pos))
         ELSE /\ UNCHANGED pos
              /\ CASE peek.kind = "LeftBrace" ->
                        Call("object", "value") /\ UNCHANGED ret
                   [] peek.kind = "LeftBracket" ->
                        Call("array", "value") /\ UNCHANGED ret
                   [] OTHER -> Return(FALSE)

ParseArrayElementValue ==
    /\ Running("element", "value")
    /\ UNCHANGED <<mainVars, lexVars, tokens, parseResult>>
    /\ IF ~ret
         THEN UNCHANGED pos /\ Return(FALSE)
         ELSE ElementNext(pos)

ParseArrayElementTail ==
    /\ Running("element", "element")
    /\ Return(ret)
    /\ UNCHANGED <<mainVars, lexVars, tokens, parseResult, pos>>

-----------------------------------------------------------------------------
(* tokenize *)

StructuralChars == {"{", "}", "[", "]", ":", ","}

Digits == {"0", "1", "2", "3", "4", "5", "6", "7", "8", "9"}

StructuralToken(ch) ==
    CASE ch = "{" -> Tok("LeftBrace")
      [] ch = "}" -> Tok("RightBrace")
      [] ch = "[" -> Tok("LeftBracket")
      [] ch = "]" -> Tok("RightBracket")
      [] ch = ":" -> Tok("Colon")
      [] ch = "," -> Tok("Comma")

\* BufRead::lines(): the text cut at each "\n", without the "\n"; text after
\* the last "\n" is a line only if there is any
RECURSIVE LinesFrom(_, _)
LinesFrom(text, cur) ==
    IF text = <<>>
      THEN (IF cur = <<>> THEN <<>> ELSE <<cur>>)
      ELSE IF Head(text) = "\n"
             THEN <<cur>> \o LinesFrom(Tail(text), <<>>)
             ELSE LinesFrom(Tail(text), Append(cur, Head(text)))

Lines(text) == LinesFrom(text, <<>>)

\* the line the for loop is in, and what its iterator has left
Line == lines[lineNo]

LineDone == IF lineNo = 0 THEN TRUE ELSE col >= Len(Line)

Lexing == lexResult = "running" /\ ~LineDone

\* the character iter.next() gives at the top of the while loop
Ch == Line[col + 1]

\* the characters iter has left after ch
Rest == SubSeq(Line, col + 2, Len(Line))

\* index in s of its first c, 0 if none
RECURSIVE IndexOf(_, _, _)
IndexOf(s, c, i) ==
    IF i > Len(s) THEN 0
    ELSE IF s[i] = c THEN i
    ELSE IndexOf(s, c, i + 1)

\* length of the run of digits that s starts with
RECURSIVE DigitRun(_, _)
DigitRun(s, i) ==
    IF i <= Len(s) /\ s[i] \in Digits THEN DigitRun(s, i + 1) ELSE i - 1

\* tokens.push(t) and on to the next character, n characters after ch taken
Push(t, n) ==
    /\ toks' = Append(toks, t)
    /\ col' = col + 1 + n
    /\ UNCHANGED <<lineNo, lexResult>>

\* return Err(TokenizeError): the local Vec is dropped
ReturnErr ==
    /\ lexResult' = "Err"
    /\ toks' = <<>>
    /\ UNCHANGED <<lineNo, col>>

\* unwrap() on None: the thread panics, the local Vec is dropped
Panic ==
    /\ lexResult' = "Panic"
    /\ toks' = <<>>
    /\ UNCHANGED <<lineNo, col>>

\* [iter.next(); n].map(|i| i.unwrap()) compared with word
Keyword(word, t) ==
    LET n == Len(word)
    IN  IF Len(Rest) < n THEN Panic
        ELSE IF SubSeq(Rest, 1, n) = word THEN Push(t, n)
        ELSE ReturnErr

\* for line in buf_reader.lines(): the while loop ran out, the next line
LexNextLine ==
    /\ lexResult = "running" /\ LineDone
    /\ lineNo < Len(lines)
    /\ lineNo' = lineNo + 1
    /\ col' = 0
    /\ UNCHANGED <<mainVars, toks, lexResult, parseVars>>

\* Ok(tokens) after the last line
LexReturn ==
    /\ lexResult = "running" /\ LineDone
    /\ lineNo >= Len(lines)
    /\ lexResult' = "Ok"
    /\ UNCHANGED <<mainVars, lineNo, col, toks, parseVars>>

LexStructural ==
    /\ Lexing /\ Ch \in StructuralChars
    /\ Push(StructuralToken(Ch), 0)
    /\ UNCHANGED <<mainVars, parseVars>>

\* the payload runs to the closing quote, or to the end of the line when
\* iter.next() gives None first
LexString ==
    /\ Lexing /\ Ch = Quote
    /\ LET close == IndexOf(Rest, Quote, 1)
           n == IF close = 0 THEN Len(Rest) ELSE close
       IN  Push(StringTok(<<Ch>> \o SubSeq(Rest, 1, n)), n)
    /\ UNCHANGED <<mainVars, parseVars>>

LexTrue ==
    /\ Lexing /\ Ch = "t"
    /\ Keyword(<<"r", "u", "e">>, Tok("True"))
    /\ UNCHANGED <<mainVars, parseVars>>

LexFalse ==
    /\ Lexing /\ Ch = "f"
    /\ Keyword(<<"a", "l", "s", "e">>, Tok("False"))
    /\ UNCHANGED <<mainVars, parseVars>>

LexNull ==
    /\ Lexing /\ Ch = "n"
    /\ Keyword(<<"u", "l", "l">>, Tok("Null"))
    /\ UNCHANGED <<mainVars, parseVars>>

LexNumberOneDigit ==
    /\ Lexing /\ Ch \in Digits
    /\ Push(NumberTok(<<Ch>>), 0)
    /\ UNCHANGED <<mainVars, parseVars>>

LexNumber ==
    /\ Lexing /\ Ch \in Digits
    /\ LET n == DigitRun(Rest, 1)
       IN  Push(NumberTok(<<Ch>> \o SubSeq(Rest, 1, n)), n)
    /\ UNCHANGED <<mainVars, parseVars>>

LexSpace ==
    /\ Lexing /\ Ch = " "
    /\ col' = col + 1
    /\ UNCHANGED <<mainVars, lineNo, toks, lexResult, parseVars>>

LexIllegal ==
    /\ Lexing
    /\ Ch \notin StructuralChars \cup Digits \cup {Quote, "t", "f", "n", " "}
    /\ ReturnErr
    /\ UNCHANGED <<mainVars, parseVars>>

Tokenize ==
    \/ LexNextLine
    \/ LexReturn
    \/ LexStructural
    \/ LexString
    \/ LexTrue
    \/ LexFalse
    \/ LexNull
    \/ LexNumber
    \/ LexSpace
    \/ LexIllegal

-----------------------------------------------------------------------------
(* main *)

Exit(status) ==
    /\ mainPc' = "exited"
    /\ exitCode' = <<status>>

\* where the text comes from: a file or stdin, and with no text to read also
\* stdin that is a terminal or a file that cannot be opened
Sources(text) ==
    IF text = <<>> THEN {"file", "stdin", "terminal", "unreadable"}
    ELSE {"file", "stdin"}

MainReadInput ==
    /\ mainPc = "open"
    /\ \E source \in Sources(input) :
          CASE source = "terminal" ->
                 Exit(2) /\ UNCHANGED lexResult
            [] source = "unreadable" ->
                 mainPc' = "panicked" /\ UNCHANGED <<exitCode, lexResult>>
            [] OTHER ->
                 mainPc' = "tokenize" /\ lexResult' = "running"
                 /\ UNCHANGED exitCode
    /\ UNCHANGED <<input, lines, units, lineNo, col, toks, parseVars>>

\* after tokenize without the check for an empty token sequence
MainTokenizedNoEmptyCheck ==
    /\ mainPc = "tokenize"
    /\ lexResult \in {"Ok", "Err", "Panic"}
    /\ UNCHANGED <<input, lines, units, lexVars, ret, parseResult>>
    /\ CASE lexResult = "Err" ->
              Exit(1) /\ UNCHANGED <<tokens, pos, stack>>
         [] lexResult = "Panic" ->
              mainPc' = "panicked" /\ UNCHANGED <<exitCode, tokens, pos, stack>>
         [] OTHER ->
              /\ tokens' = toks
              /\ pos' = 0
              /\ stack' = <<Frame("parse_tokens", "entry", FALSE)>>
              /\ mainPc' = "parse"
              /\ UNCHANGED exitCode

\* tokenize is back: exit 1 on Err and on no tokens, else call parse_tokens
MainTokenized ==
    /\ mainPc = "tokenize"
    /\ lexResult \in {"Ok", "Err", "Panic"}
    /\ UNCHANGED <<input, lines, units, lexVars, ret, parseResult>>
    /\ CASE lexResult = "Err" ->
              Exit(1) /\ UNCHANGED <<tokens, pos, stack>>
         [] lexResult = "Panic" ->
              mainPc' = "panicked" /\ UNCHANGED <<exitCode, tokens, pos, stack>>
         [] OTHER ->
              /\ tokens' = toks
              /\ IF Len(toks) = 0
                   THEN Exit(1) /\ UNCHANGED <<pos, stack>>
                   ELSE /\ pos' = 0
                        /\ stack' = <<Frame("parse_tokens", "entry", FALSE)>>
                        /\ mainPc' = "parse"
                        /\ UNCHANGED exitCode

\* parse_tokens is back
MainExit ==
    /\ mainPc = "parse"
    /\ parseResult # "none"
    /\ Exit(IF parseResult = "Ok" THEN 0 ELSE 1)
    /\ UNCHANGED <<input, lines, units, lexVars, parseVars>>

-----------------------------------------------------------------------------
NextParse ==
    \/ ParseTokens
    \/ ParseTokensCheck
    \/ ParseObject
    \/ ParseObjectClose
    \/ ParseObjectMember
    \/ ParseObjectMemberValue
    \/ ParseObjectMemberTail
    \/ ParseObjectValue
    \/ ParseObjectValueNested
    \/ ParseArray
    \/ ParseArrayClose
    \/ ParseArrayElement
    \/ ParseArrayElementValue
    \/ ParseArrayElementTail

-----------------------------------------------------------------------------
(* Inputs of parse_tokens *)

StringA == <<Quote, "a", Quote>>

\* one token of every variant but EOF, which no slice holds
ParseTokenSet ==
    {Tok("LeftBrace"), Tok("RightBrace"), Tok("Colon"), Tok("Comma"),
     StringTok(StringA), Tok("True"), Tok("False"), Tok("Null"),
     NumberTok(<<"1">>), Tok("LeftBracket"), Tok("RightBracket")}

SimpleTokenSet == {t \in ParseTokenSet : t.kind \in
                     {"String", "True", "False", "Null", "Number"}}

SeqsOfLen(S, n) == [1..n -> S]

\* the token sequences of length n that the JSON grammar derives
RECURSIVE ValuesOfLen(_), MembersOfLen(_), ElementsOfLen(_)

ValuesOfLen(n) ==
    IF n < 1 THEN {}
    ELSE IF n = 1 THEN {<<t>> : t \in SimpleTokenSet}
    ELSE IF n = 2 THEN {<<Tok("LeftBrace"), Tok("RightBrace")>>,
                        <<Tok("LeftBracket"), Tok("RightBracket")>>}
    ELSE {<<Tok("LeftBrace")>> \o m \o <<Tok("RightBrace")>> :
              m \in MembersOfLen(n - 2)}
         \cup
         {<<Tok("LeftBracket")>> \o e \o <<Tok("RightBracket")>> :
              e \in ElementsOfLen(n - 2)}

MembersOfLen(n) ==
    IF n < 3 THEN {}
    ELSE {<<StringTok(StringA), Tok("Colon")>> \o v : v \in ValuesOfLen(n - 2)}
         \cup
         UNION {{<<StringTok(StringA), Tok("Colon")>> \o v \o <<Tok("Comma")>> \o m :
                    v \in ValuesOfLen(k), m \in MembersOfLen(n - 3 - k)} :
                k \in 1..(n - 6)}

ElementsOfLen(n) ==
    IF n < 1 THEN {}
    ELSE ValuesOfLen(n)
         \cup
         UNION {{v \o <<Tok("Comma")>> \o e :
                    v \in ValuesOfLen(k), e \in ElementsOfLen(n - 1 - k)} :
                k \in 1..(n - 2)}

ShortInputs == UNION {SeqsOfLen(ParseTokenSet, n) : n \in 1..MaxLen}

ValueInputs == UNION {ValuesOfLen(n) : n \in 1..MaxValueLen}

ParseInputs ==
    ShortInputs \cup ValueInputs
    \cup {v \o <<x>> : v \in ValueInputs, x \in ParseTokenSet}

-----------------------------------------------------------------------------
\* The JSON grammar, as a recogniser of token sequences
\*   Value   := simple | Object | Array
\*   Object  := LeftBrace [Member {Comma Member}] RightBrace
\*   Member  := String Colon Value
\*   Array   := LeftBracket [Value {Comma Value}] RightBracket

SimpleKinds == {"String", "True", "False", "Null", "Number"}

RECURSIVE IsValue(_), IsMembers(_), IsElements(_)

IsValue(s) ==
    \/ Len(s) = 1 /\ s[1].kind \in SimpleKinds
    \/ /\ Len(s) >= 2
       /\ s[1].kind = "LeftBrace" /\ s[Len(s)].kind = "RightBrace"
       /\ (Len(s) = 2 \/ IsMembers(SubSeq(s, 2, Len(s) - 1)))
    \/ /\ Len(s) >= 2
       /\ s[1].kind = "LeftBracket" /\ s[Len(s)].kind = "RightBracket"
       /\ (Len(s) = 2 \/ IsElements(SubSeq(s, 2, Len(s) - 1)))

IsMembers(m) ==
    /\ Len(m) >= 3
    /\ m[1].kind = "String" /\ m[2].kind = "Colon"
    /\ \E k \in 3..Len(m) :
          /\ IsValue(SubSeq(m, 3, k))
          /\ \/ k = Len(m)
             \/ /\ k + 1 < Len(m)
                /\ m[k + 1].kind = "Comma"
                /\ IsMembers(SubSeq(m, k + 2, Len(m)))

IsElements(e) ==
    /\ Len(e) >= 1
    /\ \E k \in 1..Len(e) :
          /\ IsValue(SubSeq(e, 1, k))
          /\ \/ k = Len(e)
             \/ /\ k + 1 < Len(e)
                /\ e[k + 1].kind = "Comma"
                /\ IsElements(SubSeq(e, k + 2, Len(e)))

ParseDone == parseResult # "none"

KindsOf(s) == {s[i].kind : i \in 1..Len(s)}

-----------------------------------------------------------------------------
(* Claims about parse_tokens, under SpecParse *)

\* C1: soundness of the validator: parse_tokens returns Ok only for a token
\* sequence that is exactly one well-formed JSON value of the grammar; every
\* other sequence yields Err.
C1_OkOnlyForValues ==
    ParseDone => (parseResult = "Ok" => IsValue(tokens))

\* C2: completeness of the validator: parse_tokens returns Ok for every token
\* sequence that is exactly one well-formed JSON value (simple value, empty or
\* non-empty object or array, nested at will).
C2_ValuesAreOk ==
    (ParseDone /\ IsValue(tokens)) => parseResult = "Ok"

\* C2 witness: an accepted object of two members that nests a collection
C2_Witness ==
    /\ parseResult = "Ok" /\ IsValue(tokens)
    /\ Len(tokens) = MaxValueLen
    /\ tokens[1].kind = "LeftBrace"
    /\ {"Comma", "Null"} \subseteq KindsOf(tokens)
    /\ KindsOf(SubSeq(tokens, 2, Len(tokens))) \cap {"LeftBrace", "LeftBracket"} # {}

HasTrailingComma(s) ==
    \E i \in 1..(Len(s) - 1) :
        s[i].kind = "Comma" /\ s[i + 1].kind \in {"RightBrace", "RightBracket"}

\* C3: trailing commas are always rejected: parse_tokens returns Err for every
\* token sequence in which a Comma is immediately followed by a RightBrace or
\* a RightBracket, at any depth and whatever surrounds the pair.
C3_TrailingCommaIsErr ==
    (ParseDone /\ HasTrailingComma(tokens)) => parseResult = "Err"

\* some proper, non-empty prefix of s is a well-formed value
HasValuePrefix(s) ==
    \E i \in 1..(Len(s) - 1) : IsValue(SubSeq(s, 1, i))

\* C4: leftover tokens are rejected: parse_tokens returns Ok only with the
\* cursor past every token, so a well-formed value followed by any non-empty
\* token sequence yields Err.
C4_LeftoverIsErr ==
    /\ parseResult = "Ok" => pos = Len(tokens)
    /\ (ParseDone /\ HasValuePrefix(tokens)) => parseResult = "Err"

\* C4 witness: a non-empty object followed by one more token was rejected with
\* the cursor stopped right after the object
C4_Witness ==
    /\ parseResult = "Err"
    /\ Len(tokens) > MaxLen + 1
    /\ tokens[1].kind = "LeftBrace"
    /\ IsValue(SubSeq(tokens, 1, Len(tokens) - 1))
    /\ pos = Len(tokens) - 1

\* new_parse_object is about to do its closing read
ObjectClosing ==
    Len(stack) > 0 /\ Top.fn = "object" /\ Top.pc \in {"close", "members"}

\* the outcome of the Members part of the running new_parse_object: what the
\* lookahead decided, or what new_parse_object_member returned
MembersOutcome == IF Top.pc = "members" THEN ret ELSE Top.valid

\* C10: the Object rule propagates the Members outcome: when the Member
\* sub-parse returns false, or the lookahead after LeftBrace is neither
\* RightBrace nor a String, new_parse_object returns false, even if the
\* closing read finds a RightBrace.
C10_ObjectPropagatesMembers ==
    [][(ObjectClosing /\ ~MembersOutcome) => ret' = FALSE]_vars

\* new_parse_array is about to finish: its Elements part is decided
ArrayClosing ==
    Len(stack) > 0 /\ Top.fn = "array" /\ Top.pc \in {"close", "elements"}

\* the outcome of the Elements part of the running new_parse_array: what the
\* lookahead decided, or what new_parse_array_element returned
ElementsOutcome == IF Top.pc = "elements" THEN ret ELSE Top.valid

\* C11 as claimed: in the Object rule and in the Array rule, once the Members
\* or Elements sub-parse has returned, successfully or not, the rule reads one
\* more token as its final step, so the cursor on return does not depend on
\* the sub-parse's outcome.
C11_ClosingReadAlways ==
    [][(ObjectClosing \/ ArrayClosing) => pos' = posAfterRead(pos)]_vars

\* C11 as amended: the Object rule always does its closing read; the Array rule
\* does it only when the Elements part succeeded or the array is empty, and
\* returns false with the cursor where the failed sub-parse left it otherwise.
C11_ClosingReadWhenValid ==
    [][/\ ObjectClosing => pos' = posAfterRead(pos)
       /\ ArrayClosing =>
            pos' = IF ElementsOutcome THEN posAfterRead(pos) ELSE pos]_vars

\* C11 witness: new_parse_array_element has returned false to new_parse_array
\* with a token still at the cursor
C11_Witness ==
    ArrayClosing /\ Top.pc = "elements" /\ ~ret /\ ~AtEnd

\* the active invocations of grammar rule f
Active(f) == Cardinality({i \in 1..Len(stack) : stack[i].fn = f})

\* the active invocations of the grammar rules: all but parse_tokens itself
GrammarDepth == Len(stack) - Active("parse_tokens")

ActiveCollections == Active("object") + Active("array")

\* the deepest bracket/brace nesting of s: openers less closers, over prefixes
RECURSIVE NestingFrom(_, _, _, _)
NestingFrom(s, i, open, deepest) ==
    IF i > Len(s) THEN deepest
    ELSE IF s[i].kind \in {"LeftBrace", "LeftBracket"}
           THEN NestingFrom(s, i + 1, open + 1,
                            IF open + 1 > deepest THEN open + 1 ELSE deepest)
    ELSE IF s[i].kind \in {"RightBrace", "RightBracket"} /\ open > 0
           THEN NestingFrom(s, i + 1, open - 1, deepest)
    ELSE NestingFrom(s, i + 1, open, deepest)

NestingDepth(s) == NestingFrom(s, 1, 0, 0)

CommasConsumed == Cardinality({i \in 1..pos : tokens[i].kind = "Comma"})

\* C12 as claimed: recursion depth equals nesting depth: the active grammar
\* rule invocations are bounded by the nesting depth of the input alone (one
\* collection rule, one Member or Element and one Value per level) and do not
\* grow with the number of members or elements at a fixed depth.
C12_DepthBoundedByNesting ==
    /\ GrammarDepth <= 3 * NestingDepth(tokens)
    /\ Active("member") <= Active("object")
    /\ Active("element") <= Active("array")

\* C12 as amended: the active grammar rule invocations are bounded by the
\* tokens consumed so far, not by the nesting depth alone: at most three per
\* open collection plus one more Member or Element invocation per comma
\* consumed, and never more than twice the tokens consumed plus one.
C12_DepthBoundedByConsumed ==
    /\ GrammarDepth <= 3 * ActiveCollections + CommasConsumed
    /\ GrammarDepth <= 2 * pos + 1

\* C12 witness: a well-formed flat array whose elements alone hold more active
\* invocations than three per nesting level
C12_Witness ==
    /\ IsValue(tokens)
    /\ NestingDepth(tokens) = 1
    /\ Active("element") > 3
    /\ GrammarDepth > 3 * NestingDepth(tokens)

-----------------------------------------------------------------------------
(* Inputs of main *)

\* Spec: every text written from up to this many pieces is an input
MaxPieces == 3

StringAB == <<Quote, "a", " ", "b", Quote>>

\* the lexical units of legal text
KeywordUnits == {<<"t", "r", "u", "e">>, <<"f", "a", "l", "s", "e">>,
                 <<"n", "u", "l", "l">>}
NumberUnits == {<<"1">>, <<"2", "0">>}
StringUnits == {StringAB}
BlankUnits == {<<" ">>, <<"\n">>}
LegalUnits ==
    {<<c>> : c \in StructuralChars} \cup KeywordUnits \cup NumberUnits
    \cup StringUnits \cup BlankUnits

\* pieces that are no unit by themselves: a lone quote, letters, a tab, the
\* start of a keyword
Fragments == {<<Quote>>, <<"k">>, <<"\t">>, <<"t">>, <<"f">>, <<"n">>,
              <<"n", "u", "l">>}

Pieces == LegalUnits \cup Fragments

RECURSIVE Flatten(_)
Flatten(ps) == IF ps = <<>> THEN <<>> ELSE Head(ps) \o Flatten(Tail(ps))

\* documents of the unit tests (tests::check_tokenize_*, check_parse_tokens_*),
\* with "a b" for every string and 20 for every number
Documents ==
    LET S == StringAB
        c(x) == <<x>>
    IN  { <<c("{"), S, c(":"), c(" "), S, c("}")>>,
          <<c("{"), c("\n"), c(" "), S, c(":"), c(" "), S, c(","), c("\n"),
            c(" "), S, c(":"), c(" "), S, c("\n"), c("}")>>,
          <<c("{"), S, c(":"), c(" "), S, c(","), c("}")>>,
          <<c("{"), S, c(":"), c(" "), c("["), S, c("]"), c("}")>>,
          <<c("{"), S, c(":"), c(" "), c("{"), S, c(":"), c(" "),
            <<"2", "0">>, c("}"), c("}")>>,
          <<c("["), S, c(","), S, c(","), c("]")>>,
          <<c("["), <<"1">>, c(","), <<"2", "0">>, c("]")>>,
          <<c("{"), c("k"), c(":"), c(" "), S, c("}")>> }

MainInputs ==
    UNION {SeqsOfLen(Pieces, n) : n \in 0..MaxPieces} \cup Documents

Init ==
    /\ units \in MainInputs
    /\ input = Flatten(units)
    /\ lines = Lines(input)
    /\ mainPc = "open"
    /\ exitCode = <<>>
    /\ lineNo = 0 /\ col = 0 /\ toks = <<>> /\ lexResult = "none"
    /\ tokens = <<>>
    /\ pos = 0
    /\ stack = <<>>
    /\ ret = FALSE
    /\ parseResult = "none"

Next ==
    \/ MainReadInput
    \/ Tokenize
    \/ MainTokenized
    \/ NextParse
    \/ MainExit

Spec == Init /\ [][Next]_vars

-----------------------------------------------------------------------------
(* Claims about tokenize and main, under Spec *)

LexDone == lexResult \in {"Ok", "Err", "Panic"}

StringPayloads(ts) == {ts[i].text : i \in {j \in 1..Len(ts) : ts[j].kind = "String"}}

\* C5: unterminated string literals fail tokenization: tokenize returns Err
\* when a line ends before the closing quote of a string, so every String
\* token of an Ok result has a payload of at least two characters that starts
\* and ends with a quote.
C5_StringsAreTerminated ==
    lexResult = "Ok" =>
        \A s \in StringPayloads(toks) :
            Len(s) >= 2 /\ s[1] = Quote /\ s[Len(s)] = Quote

\* the lexer is at a 't', 'f' or 'n' outside a string
AtKeyword == Lexing /\ Ch \in {"t", "f", "n"}

KeywordTail(ch) ==
    CASE ch = "t" -> <<"r", "u", "e">>
      [] ch = "f" -> <<"a", "l", "s", "e">>
      [] ch = "n" -> <<"u", "l", "l">>

KeywordToken(ch) ==
    CASE ch = "t" -> Tok("True")
      [] ch = "f" -> Tok("False")
      [] ch = "n" -> Tok("Null")

\* the characters right after ch are exactly w
FollowedBy(w) == Len(Rest) >= Len(w) /\ SubSeq(Rest, 1, Len(w)) = w

\* C6: keyword recognition: at 't', 'f' or 'n' outside a string the lexer
\* produces True, False or Null only if "rue", "alse" or "ull" follows
\* exactly; in every other case, a line that ends inside the keyword
\* included, tokenize returns Err instead of crashing or producing a token.
C6_KeywordMismatchIsErr ==
    [][AtKeyword =>
         IF FollowedBy(KeywordTail(Ch))
           THEN lexResult' = "running" /\ toks' = Append(toks, KeywordToken(Ch))
           ELSE lexResult' = "Err"]_vars

\* the characters that are illegal outside a string wherever they stand: all
\* but the structural ones, the quote, the digits, the space and the letters
\* of true, false and null
NeverLegal(c) ==
    c \notin StructuralChars \cup Digits
             \cup {Quote, " ", "t", "r", "u", "e", "f", "a", "l", "s", "n"}

\* position i of line is outside a string literal: the quotes before it pair up
OutsideString(line, i) ==
    Cardinality({j \in 1..(i - 1) : line[j] = Quote}) % 2 = 0

HasIllegalCharacter ==
    \E l \in 1..Len(lines) : \E i \in 1..Len(lines[l]) :
        NeverLegal(lines[l][i]) /\ OutsideString(lines[l], i)

\* C7: fail-fast on illegal characters: when the input has, outside a string
\* literal, a character that is illegal there (a tab, the k of an unquoted
\* key), tokenize returns Err and the result carries no tokens, however many
\* valid tokens preceded it.
C7_IllegalCharacterIsErr ==
    (LexDone /\ HasIllegalCharacter) => (lexResult = "Err" /\ toks = <<>>)

IsDigitRun(u) == u # <<>> /\ \A i \in 1..Len(u) : u[i] \in Digits

\* units with neighbouring digit runs joined: the maximal runs
RECURSIVE JoinDigitRuns(_)
JoinDigitRuns(us) ==
    IF Len(us) < 2 THEN us
    ELSE IF IsDigitRun(us[1]) /\ IsDigitRun(us[2])
           THEN JoinDigitRuns(<<us[1] \o us[2]>> \o SubSeq(us, 3, Len(us)))
           ELSE <<us[1]>> \o JoinDigitRuns(Tail(us))

\* the token, if any, that a lexical unit stands for
UnitTokens(u) ==
    CASE u \in BlankUnits -> <<>>
      [] u = <<"{">> -> <<Tok("LeftBrace")>>
      [] u = <<"}">> -> <<Tok("RightBrace")>>
      [] u = <<"[">> -> <<Tok("LeftBracket")>>
      [] u = <<"]">> -> <<Tok("RightBracket")>>
      [] u = <<":">> -> <<Tok("Colon")>>
      [] u = <<",">> -> <<Tok("Comma")>>
      [] u = <<"t", "r", "u", "e">> -> <<Tok("True")>>
      [] u = <<"f", "a", "l", "s", "e">> -> <<Tok("False")>>
      [] u = <<"n", "u", "l", "l">> -> <<Tok("Null")>>
      [] IsDigitRun(u) -> <<[kind |-> "Number", text |-> u]>>
      [] u \in StringUnits -> <<[kind |-> "String", text |-> u]>>

RECURSIVE TokensOfUnits(_)
TokensOfUnits(us) ==
    IF us = <<>> THEN <<>> ELSE UnitTokens(Head(us)) \o TokensOfUnits(Tail(us))

LegalText == \A i \in 1..Len(units) : units[i] \in LegalUnits

\* C8: lexer output on legal text: for input written only from structural
\* characters, spaces, line breaks, complete keywords, digit runs and
\* terminated strings, tokenize returns Ok with one token per unit in source
\* order: none for spaces and line breaks, a String holding the text with both
\* quotes, one Number per maximal digit run holding that run, and never EOF;
\* the empty input gives the empty sequence.
C8_LegalTextTokens ==
    (LexDone /\ LegalText) =>
        /\ lexResult = "Ok"
        /\ toks = TokensOfUnits(JoinDigitRuns(units))
        /\ \A i \in 1..Len(toks) : toks[i].kind # "EOF"

\* C8 witness: legal text with blanks, a string with a space inside and a
\* digit run was tokenized
C8_Witness ==
    /\ lexResult = "Ok" /\ LegalText
    /\ \E i \in 1..Len(toks) : toks[i] = StringTok(StringAB)
    /\ \E i \in 1..Len(toks) : toks[i] = NumberTok(<<"2", "0">>)
    /\ \E i \in 1..Len(units) : units[i] \in BlankUnits
    /\ Len(toks) < Len(units)

ParseInvoked == Len(stack) > 0 \/ parseResult # "none"

\* C9: stage ordering and verdict of a run: main invokes parse_tokens only
\* after tokenize returned Ok with a non-empty token sequence; a run exits
\* with status 0 exactly when parse_tokens returned Ok, and with status 1 on a
\* tokenize failure, on an empty token sequence and on a parse failure.
C9_StagesAndVerdict ==
    /\ ParseInvoked => (lexResult = "Ok" /\ toks # <<>> /\ tokens = toks)
    /\ mainPc = "exited" =>
          /\ exitCode = <<0>> <=> parseResult = "Ok"
          /\ lexResult = "Err" => exitCode = <<1>>
          /\ (lexResult = "Ok" /\ toks = <<>>) => exitCode = <<1>>
          /\ parseResult = "Err" => exitCode = <<1>>
    /\ (lexResult = "Err" \/ parseResult # "none" \/ (lexResult = "Ok" /\ toks = <<>>))
          => (mainPc = "exited" \/ ENABLED (MainTokenized \/ MainExit))

\* C9 witness: a run that tokenized, parsed a nested document and exited 0
C9_Witness ==
    /\ mainPc = "exited" /\ exitCode = <<0>>
    /\ parseResult = "Ok" /\ Len(tokens) > MaxPieces + 1

-----------------------------------------------------------------------------
\* parse_tokens(&tokens[..]) called on its own, as the unit tests call it
InitParse ==
    /\ input = <<>> /\ lines = <<>> /\ units = <<>>
    /\ mainPc = "direct"
    /\ exitCode = <<>>
    /\ lineNo = 0 /\ col = 0 /\ toks = <<>> /\ lexResult = "none"
    /\ tokens \in ParseInputs
    /\ pos = 0
    /\ stack = <<Frame("parse_tokens", "entry", FALSE)>>
    /\ ret = FALSE
    /\ parseResult = "none"

SpecParse == InitParse /\ [][NextParse]_vars

\* parse_tokens is sequential code: once called it runs on until it returns
SpecParseFair == SpecParse /\ WF_vars(NextParse)

-----------------------------------------------------------------------------
(* Claims about termination, under SpecParseFair *)

\* the step takes the running invocation into a call of another rule
CallStep == Len(stack') = Len(stack) + 1

Caller == Top.fn

Callee == stack'[Len(stack')].fn

GrammarRules == {"object", "member", "value", "array", "element"}

Collections == {"object", "array"}

\* Value and Element hand a nested collection over after only a peek
HandsOver == Caller \in {"value", "element"} /\ Callee \in Collections

\* C13 as claimed: every grammar rule invocation consumes at least one token
\* before it makes any recursive invocation (here: an invocation that calls
\* another rule in its first step has advanced the cursor in that step), the
\* cursor never decreases, and a read at the end does not advance.
C13_EveryRuleConsumesFirst ==
    [][/\ (CallStep /\ Caller \in GrammarRules /\ Top.pc = "entry")
            => pos' > pos
       /\ pos' >= pos
       /\ (AtEnd => pos' = pos)]_vars

\* C13 as amended: parse_tokens always returns Ok or Err on a finite token
\* sequence and is never stuck before that; the cursor never decreases, never
\* passes the end, and a read at the end does not advance; Object and Array
\* consume their opening token in their first step, and every call of one
\* rule by another consumes a token in the calling step, except that Value
\* and Element call Object or Array without consuming anything, with the
\* opening token under the cursor.
C13_Terminates ==
    /\ <>ParseDone
    /\ [](pos <= Len(tokens) /\ (ParseDone \/ ENABLED NextParse))
    /\ [][/\ pos' >= pos
          /\ (AtEnd => pos' = pos)
          /\ (Running("object", "entry") \/ Running("array", "entry"))
                => pos' = pos + 1
          /\ (CallStep /\ Caller \in GrammarRules) =>
                IF HandsOver
                  THEN pos' = pos /\ peek.kind \in {"LeftBrace", "LeftBracket"}
                  ELSE pos' > pos]_vars

\* C13 witness: { "a" : { has run to its verdict: Value called the inner
\* Object without consuming, and the closing reads met the end of the tokens
C13_Witness ==
    /\ ParseDone
    /\ Len(tokens) = 4
    /\ [i \in 1..4 |-> tokens[i].kind]
         = <<"LeftBrace", "String", "Colon", "LeftBrace">>
    /\ pos = Len(tokens)
    /\ parseResult = "Err"

====
